---------------------------- MODULE Spec2Model ----------------------------
(***************************************************************************)
(* Model of socketcan-rs src/errors.rs: the decoding of a CAN error frame  *)
(* (32-bit error mask + 8-byte payload) into the CanError taxonomy, the    *)
(* four byte decoders (TryFrom<u8>), and the embedded_can::Error::kind     *)
(* projections of CanError and of the composite Error.                     *)
(*                                                                         *)
(* Every operation of the file is a pure function.  A behaviour of the     *)
(* model is one call: Init draws the function to call and its argument,    *)
(* the action of that function computes the returned value into ret.       *)
(***************************************************************************)
EXTENDS Integers, Sequences, FiniteSets

VARIABLES
    pc,      \* "start" before the call, "done" after it returned
    call,    \* the function the caller invokes
    frame,   \* argument of CanError::from: [error_bits, data]
    val,     \* argument of the try_from decoders: a u8
    self,    \* receiver of kind(): a CanError or a composite Error
    ret      \* the returned value (None before the call)

vars == <<pc, call, frame, val, self, ret>>

----------------------------------------------------------------------------
(* Bounds of the explored inputs *)

\* masks 0 .. MaxMask are explored exhaustively (plus ExtraMasks)
MaxMask == 20

\* OS error numbers carried by nix::Error / io::Error are 1 .. MaxErrno
MaxErrno == 3

----------------------------------------------------------------------------
(* Value domains *)

\* u8
Byte == 0 .. 255

\* u32 masks explored: every value up to MaxMask, every single flag of
\* linux/can/error.h up to the error-counter flag, some combined flags, and
\* large values (0x9999, 0x10004, 0x1FFFFFFF: all 29 bits of an error-frame
\* identifier, 0x7FFFFFFF: the largest integer TLC represents)
ExtraMasks ==
    {32, 64, 128, 256, 512, 384, 768, 1024, 39321, 65540, 536870911,
     2147483647}

Masks == (0 .. MaxMask) \cup ExtraMasks

\* payload bytes explored at the offsets the dispatcher may decode
\* (0x00 0x01 0x02 0x03 0x12 0x80 0xFF: valid and invalid codes of each table)
CodeSamples == {0, 1, 2, 3, 18, 128, 255}

\* payload bytes explored at offsets 0, 4 and 5..7
BitSamples == {0, 5}
TrxSamples == {4, 255}
TailSamples == {0, 255}

\* combinations of the sampled bytes; data()[i] is the tuple's element i + 1
Payloads ==
    { <<b0, b1, b2, b3, b4, t, t, t>> :
        b0 \in BitSamples, b1 \in CodeSamples, b2 \in CodeSamples,
        b3 \in CodeSamples, b4 \in TrxSamples, t \in TailSamples }

\* the payload whose byte at offset p is b and whose other bytes are t
OneByte(p, b, t) ==
    LET at(i) == IF i = p THEN b ELSE t
    IN  <<at(0), at(1), at(2), at(3), at(4), at(5), at(6), at(7)>>

\* every value of every payload byte, over a uniform background
SweepPayloads ==
    { OneByte(p, b, t) : p \in 0 .. 7, b \in Byte, t \in TailSamples }

Frames == [error_bits : Masks, data : Payloads \cup SweepPayloads]

\* frame.data()[i], 0-based as in the source
Data(f, i) == f.data[i + 1]

----------------------------------------------------------------------------
(* Result<T, E> *)

Ok(v) == [tag |-> "Ok", ok |-> v]
Err(e) == [tag |-> "Err", err |-> e]

----------------------------------------------------------------------------
(* enum CanErrorDecodingFailure *)

NotAnError == [failure |-> "NotAnError"]
UnknownErrorType(m) == [failure |-> "UnknownErrorType", raw |-> m]
NotEnoughData(n) == [failure |-> "NotEnoughData", len |-> n]
InvalidControllerProblem == [failure |-> "InvalidControllerProblem"]
InvalidViolationType == [failure |-> "InvalidViolationType"]
InvalidLocation == [failure |-> "InvalidLocation"]
InvalidTransceiverError == [failure |-> "InvalidTransceiverError"]

CanErrorDecodingFailure ==
    {NotAnError, InvalidControllerProblem, InvalidViolationType,
     InvalidLocation, InvalidTransceiverError}
    \cup {UnknownErrorType(m) : m \in Masks}
    \cup {NotEnoughData(n) : n \in Byte}

----------------------------------------------------------------------------
(* enum ControllerProblem and its decoder *)

ControllerProblem ==
    {"Unspecified", "ReceiveBufferOverflow", "TransmitBufferOverflow",
     "ReceiveErrorWarning", "TransmitErrorWarning", "ReceiveErrorPassive",
     "TransmitErrorPassive", "Active"}

\* faulty variant: the code is read as a bit mask, the lowest set flag wins
ControllerProblem_try_from_bit_test(v) ==
    CASE v = 0 -> Ok("Unspecified")
      [] v % 2 = 1 -> Ok("ReceiveBufferOverflow")
      [] v % 4 = 2 -> Ok("TransmitBufferOverflow")
      [] v % 8 = 4 -> Ok("ReceiveErrorWarning")
      [] v % 16 = 8 -> Ok("TransmitErrorWarning")
      [] v % 32 = 16 -> Ok("ReceiveErrorPassive")
      [] v % 64 = 32 -> Ok("TransmitErrorPassive")
      [] v % 128 = 64 -> Ok("Active")
      [] OTHER -> Err(InvalidControllerProblem)

ControllerProblem_try_from(v) ==
    CASE v = 0 -> Ok("Unspecified")
      [] v = 1 -> Ok("ReceiveBufferOverflow")
      [] v = 2 -> Ok("TransmitBufferOverflow")
      [] v = 4 -> Ok("ReceiveErrorWarning")
      [] v = 8 -> Ok("TransmitErrorWarning")
      [] v = 16 -> Ok("ReceiveErrorPassive")
      [] v = 32 -> Ok("TransmitErrorPassive")
      [] v = 64 -> Ok("Active")
      [] OTHER -> Err(InvalidControllerProblem)

----------------------------------------------------------------------------
(* enum ViolationType and its decoder *)

ViolationType ==
    {"Unspecified", "SingleBitError", "FrameFormatError", "BitStuffingError",
     "UnableToSendDominantBit", "UnableToSendRecessiveBit", "BusOverload",
     "Active", "TransmissionError"}

ViolationType_try_from(v) ==
    CASE v = 0 -> Ok("Unspecified")
      [] v = 1 -> Ok("SingleBitError")
      [] v = 2 -> Ok("FrameFormatError")
      [] v = 4 -> Ok("BitStuffingError")
      [] v = 8 -> Ok("UnableToSendDominantBit")
      [] v = 16 -> Ok("UnableToSendRecessiveBit")
      [] v = 32 -> Ok("BusOverload")
      [] v = 64 -> Ok("Active")
      [] v = 128 -> Ok("TransmissionError")
      [] OTHER -> Err(InvalidViolationType)

----------------------------------------------------------------------------
(* enum Location and its decoder *)

Location ==
    {"Unspecified", "StartOfFrame", "Id2821", "Id2018", "SubstituteRtr",
     "IdentifierExtension", "Id1713", "Id1205", "Id0400", "Rtr", "Reserved1",
     "Reserved0", "DataLengthCode", "DataSection", "CrcSequence",
     "CrcDelimiter", "AckSlot", "AckDelimiter", "EndOfFrame", "Intermission"}

\* faulty variant: the codes of start-of-frame and ID bits 28-21 in
\* ascending order of the variants (0x02, 0x03) instead of the table's
Location_try_from_ascending(v) ==
    CASE v = 0 -> Ok("Unspecified")
      [] v = 2 -> Ok("StartOfFrame")
      [] v = 3 -> Ok("Id2821")
      [] v = 6 -> Ok("Id2018")
      [] v = 4 -> Ok("SubstituteRtr")
      [] v = 5 -> Ok("IdentifierExtension")
      [] v = 7 -> Ok("Id1713")
      [] v = 15 -> Ok("Id1205")
      [] v = 14 -> Ok("Id0400")
      [] v = 12 -> Ok("Rtr")
      [] v = 13 -> Ok("Reserved1")
      [] v = 9 -> Ok("Reserved0")
      [] v = 11 -> Ok("DataLengthCode")
      [] v = 10 -> Ok("DataSection")
      [] v = 8 -> Ok("CrcSequence")
      [] v = 24 -> Ok("CrcDelimiter")
      [] v = 25 -> Ok("AckSlot")
      [] v = 27 -> Ok("AckDelimiter")
      [] v = 26 -> Ok("EndOfFrame")
      [] v = 18 -> Ok("Intermission")
      [] OTHER -> Err(InvalidLocation)

Location_try_from(v) ==
    CASE v = 0 -> Ok("Unspecified")
      [] v = 3 -> Ok("StartOfFrame")
      [] v = 2 -> Ok("Id2821")
      [] v = 6 -> Ok("Id2018")
      [] v = 4 -> Ok("SubstituteRtr")
      [] v = 5 -> Ok("IdentifierExtension")
      [] v = 7 -> Ok("Id1713")
      [] v = 15 -> Ok("Id1205")
      [] v = 14 -> Ok("Id0400")
      [] v = 12 -> Ok("Rtr")
      [] v = 13 -> Ok("Reserved1")
      [] v = 9 -> Ok("Reserved0")
      [] v = 11 -> Ok("DataLengthCode")
      [] v = 10 -> Ok("DataSection")
      [] v = 8 -> Ok("CrcSequence")
      [] v = 24 -> Ok("CrcDelimiter")
      [] v = 25 -> Ok("AckSlot")
      [] v = 27 -> Ok("AckDelimiter")
      [] v = 26 -> Ok("EndOfFrame")
      [] v = 18 -> Ok("Intermission")
      [] OTHER -> Err(InvalidLocation)

----------------------------------------------------------------------------
(* enum TransceiverError and its decoder *)

TransceiverError ==
    {"Unspecified", "CanHighNoWire", "CanHighShortToBat", "CanHighShortToVcc",
     "CanHighShortToGnd", "CanLowNoWire", "CanLowShortToBat",
     "CanLowShortToVcc", "CanLowShortToGnd", "CanLowShortToCanHigh"}

\* faulty variant: the high-low short code 0x80 is left out
TransceiverError_try_from_no_short(v) ==
    CASE v = 0 -> Ok("Unspecified")
      [] v = 4 -> Ok("CanHighNoWire")
      [] v = 5 -> Ok("CanHighShortToBat")
      [] v = 6 -> Ok("CanHighShortToVcc")
      [] v = 7 -> Ok("CanHighShortToGnd")
      [] v = 64 -> Ok("CanLowNoWire")
      [] v = 80 -> Ok("CanLowShortToBat")
      [] v = 96 -> Ok("CanLowShortToVcc")
      [] v = 112 -> Ok("CanLowShortToGnd")
      [] OTHER -> Err(InvalidTransceiverError)

TransceiverError_try_from(v) ==
    CASE v = 0 -> Ok("Unspecified")
      [] v = 4 -> Ok("CanHighNoWire")
      [] v = 5 -> Ok("CanHighShortToBat")
      [] v = 6 -> Ok("CanHighShortToVcc")
      [] v = 7 -> Ok("CanHighShortToGnd")
      [] v = 64 -> Ok("CanLowNoWire")
      [] v = 80 -> Ok("CanLowShortToBat")
      [] v = 96 -> Ok("CanLowShortToVcc")
      [] v = 112 -> Ok("CanLowShortToGnd")
      [] v = 128 -> Ok("CanLowShortToCanHigh")
      [] OTHER -> Err(InvalidTransceiverError)

----------------------------------------------------------------------------
(* enum CanError *)

TransmitTimeout == [tag |-> "TransmitTimeout"]
LostArbitration(n) == [tag |-> "LostArbitration", bit |-> n]
ControllerProblemError(cp) == [tag |-> "ControllerProblem", cp |-> cp]
ProtocolViolation(vtype, location) ==
    [tag |-> "ProtocolViolation", vtype |-> vtype, location |-> location]
TransceiverErrorUnit == [tag |-> "TransceiverError"]
NoAck == [tag |-> "NoAck"]
BusOff == [tag |-> "BusOff"]
BusError == [tag |-> "BusError"]
Restarted == [tag |-> "Restarted"]
DecodingFailure(e) == [tag |-> "DecodingFailure", failure |-> e]
Unknown(m) == [tag |-> "Unknown", mask |-> m]

CanError ==
    {TransmitTimeout, TransceiverErrorUnit, NoAck, BusOff, BusError, Restarted}
    \cup {LostArbitration(n) : n \in Byte}
    \cup {ControllerProblemError(cp) : cp \in ControllerProblem}
    \cup {ProtocolViolation(t, l) : t \in ViolationType, l \in Location}
    \cup {DecodingFailure(e) : e \in CanErrorDecodingFailure}
    \cup {Unknown(m) : m \in Masks}

----------------------------------------------------------------------------
(* impl From<CanErrorFrame> for CanError *)

\* match frame.error_bits() { ... }: the match on the mask bits of frame f
Dispatch(bits, f) ==
    CASE bits = 1 -> TransmitTimeout
      [] bits = 2 -> LostArbitration(Data(f, 0))
      [] bits = 4 ->
            LET r == ControllerProblem_try_from(Data(f, 1))
            IN  IF r.tag = "Ok" THEN ControllerProblemError(r.ok)
                ELSE DecodingFailure(r.err)
      [] bits = 8 ->
            LET t == ViolationType_try_from(Data(f, 2))
                l == Location_try_from(Data(f, 3))
            IN  IF t.tag = "Ok" /\ l.tag = "Ok"
                THEN ProtocolViolation(t.ok, l.ok)
                ELSE IF t.tag = "Err" THEN DecodingFailure(t.err)
                ELSE DecodingFailure(l.err)
      [] bits = 16 -> TransceiverErrorUnit
      [] bits = 32 -> NoAck
      [] bits = 64 -> BusOff
      [] bits = 128 -> BusError
      [] bits = 256 -> Restarted
      [] OTHER -> Unknown(bits)

\* the lowest flag set in mask m among 0x0001 .. 0x0100, m when there is none
LowestFlag(m) ==
    LET flags == {x \in {1, 2, 4, 8, 16, 32, 64, 128, 256} : (m \div x) % 2 = 1}
    IN  IF flags = {} THEN m
        ELSE CHOOSE x \in flags : \A y \in flags : x <= y

\* faulty variant: the flags are tested bitwise, the lowest set flag wins
CanError_from_bitwise(f) == Dispatch(LowestFlag(f.error_bits), f)

\* faulty variant: the location is decoded and reported before the violation type
CanError_from_location_first(f) ==
    IF f.error_bits = 8
        /\ Location_try_from(Data(f, 3)).tag = "Err"
    THEN DecodingFailure(Location_try_from(Data(f, 3)).err)
    ELSE Dispatch(f.error_bits, f)

\* faulty variant: the unknown mask is kept as 16 bits
CanError_from_mask16(f) ==
    LET e == Dispatch(f.error_bits, f)
    IN  IF e.tag = "Unknown" THEN Unknown(e.mask % 65536) ELSE e

\* faulty variant: the controller problem is decoded from data()[0]
CanError_from_wrong_offset(f) ==
    IF f.error_bits = 4
    THEN LET r == ControllerProblem_try_from(Data(f, 0))
         IN  IF r.tag = "Ok" THEN ControllerProblemError(r.ok)
             ELSE DecodingFailure(r.err)
    ELSE Dispatch(f.error_bits, f)

\* faulty variant: the transceiver status data()[4] is decoded
CanError_from_decode_trx(f) ==
    IF f.error_bits = 16
        /\ TransceiverError_try_from(Data(f, 4)).tag = "Err"
    THEN DecodingFailure(TransceiverError_try_from(Data(f, 4)).err)
    ELSE Dispatch(f.error_bits, f)

\* faulty variant: an unrecognized mask is reported as the decoding failure
\* UnknownErrorType instead of CanError::Unknown
CanError_from_unknown_error_type(f) ==
    LET e == Dispatch(f.error_bits, f)
    IN  IF e.tag = "Unknown" THEN DecodingFailure(UnknownErrorType(e.mask))
        ELSE e

CanError_from(f) == Dispatch(f.error_bits, f)

----------------------------------------------------------------------------
(* impl embedded_can::Error for CanError *)

\* faulty variant: only the receive overflow is an overrun
CanError_kind_rx_only(e) ==
    CASE e.tag = "ControllerProblem" ->
            IF e.cp = "ReceiveBufferOverflow" THEN "Overrun" ELSE "Other"
      [] e.tag = "NoAck" -> "Acknowledge"
      [] OTHER -> "Other"

CanError_kind(e) ==
    CASE e.tag = "ControllerProblem" ->
            IF e.cp \in {"ReceiveBufferOverflow", "TransmitBufferOverflow"}
            THEN "Overrun"
            ELSE "Other"
      [] e.tag = "NoAck" -> "Acknowledge"
      [] OTHER -> "Other"

----------------------------------------------------------------------------
(* enum CanSocketOpenError, enum Error (composite) *)

Errno == 1 .. MaxErrno

CanSocketOpenError ==
    {[cause |-> "LookupError", nix |-> n] : n \in Errno}
    \cup {[cause |-> "IOError", io |-> n] : n \in Errno}

Error ==
    {[variant |-> "Can", can |-> e] : e \in CanError}
    \cup {[variant |-> "Controller", controller |-> cp] : cp \in ControllerProblem}
    \cup {[variant |-> "SocketOpen", open |-> e] : e \in CanSocketOpenError}
    \cup {[variant |-> "Nix", nix |-> n] : n \in Errno}
    \cup {[variant |-> "Io", io |-> n] : n \in Errno}

(* impl embedded_can::Error for Error *)
Error_kind(e) ==
    CASE e.variant = "Can" -> CanError_kind(e.can)
      [] OTHER -> "Other"

----------------------------------------------------------------------------
(* The calls *)

None == [tag |-> "None"]
NoFrame == [error_bits |-> 0, data |-> <<0, 0, 0, 0, 0, 0, 0, 0>>]
NoSelf == [tag |-> "None"]

TryFromCalls ==
    {"ControllerProblem::try_from", "ViolationType::try_from",
     "Location::try_from", "TransceiverError::try_from"}

Init ==
    /\ pc = "start"
    /\ ret = None
    /\ \/ /\ call = "CanError::from"
          /\ frame \in Frames
          /\ val = 0
          /\ self = NoSelf
       \/ /\ call \in TryFromCalls
          /\ frame = NoFrame
          /\ val \in Byte
          /\ self = NoSelf
       \/ /\ call = "CanError::kind"
          /\ frame = NoFrame
          /\ val = 0
          /\ self \in CanError
       \/ /\ call = "Error::kind"
          /\ frame = NoFrame
          /\ val = 0
          /\ self \in Error

Return(v) ==
    /\ pc = "start"
    /\ pc' = "done"
    /\ ret' = v
    /\ UNCHANGED <<call, frame, val, self>>

CanErrorFrom ==
    /\ call = "CanError::from"
    /\ Return(CanError_from(frame))

ControllerProblemTryFrom ==
    /\ call = "ControllerProblem::try_from"
    /\ Return(ControllerProblem_try_from(val))

ViolationTypeTryFrom ==
    /\ call = "ViolationType::try_from"
    /\ Return(ViolationType_try_from(val))

LocationTryFrom ==
    /\ call = "Location::try_from"
    /\ Return(Location_try_from(val))

TransceiverErrorTryFrom ==
    /\ call = "TransceiverError::try_from"
    /\ Return(TransceiverError_try_from(val))

CanErrorKind ==
    /\ call = "CanError::kind"
    /\ Return(CanError_kind(self))

ErrorKind ==
    /\ call = "Error::kind"
    /\ Return(Error_kind(self))

Next ==
    \/ CanErrorFrom
    \/ ControllerProblemTryFrom
    \/ ViolationTypeTryFrom
    \/ LocationTryFrom
    \/ TransceiverErrorTryFrom
    \/ CanErrorKind
    \/ ErrorKind

Spec == Init /\ [][Next]_vars

----------------------------------------------------------------------------
(* Properties *)

Returned(c) == pc = "done" /\ call = c

\* the single-flag masks the dispatcher recognizes (0x0001 .. 0x0100)
RecognizedMasks == {1, 2, 4, 8, 16, 32, 64, 128, 256}

\* the code tables of the byte decoders, as the specification enumerates them
ControllerProblemTable ==
    { <<0, "Unspecified">>, <<1, "ReceiveBufferOverflow">>,
      <<2, "TransmitBufferOverflow">>, <<4, "ReceiveErrorWarning">>,
      <<8, "TransmitErrorWarning">>, <<16, "ReceiveErrorPassive">>,
      <<32, "TransmitErrorPassive">>, <<64, "Active">> }

ViolationTypeCodes == {0, 1, 2, 4, 8, 16, 32, 64, 128}

LocationTable ==
    { <<0, "Unspecified">>, <<3, "StartOfFrame">>, <<2, "Id2821">>,
      <<6, "Id2018">>, <<4, "SubstituteRtr">>, <<5, "IdentifierExtension">>,
      <<7, "Id1713">>, <<15, "Id1205">>, <<14, "Id0400">>, <<12, "Rtr">>,
      <<13, "Reserved1">>, <<9, "Reserved0">>, <<11, "DataLengthCode">>,
      <<10, "DataSection">>, <<8, "CrcSequence">>, <<24, "CrcDelimiter">>,
      <<25, "AckSlot">>, <<27, "AckDelimiter">>, <<26, "EndOfFrame">>,
      <<18, "Intermission">> }

TransceiverCodes == {0, 4, 5, 6, 7, 64, 80, 96, 112, 128}

Codes(table) == {e[1] : e \in table}

\* C1: a mask that is not exactly one of the nine single-flag values 0x0001 ..
\* 0x0100 decodes to Unknown carrying that mask unchanged, whatever the payload:
\* combined flags (0x0003) and the error-counter flag (0x0200) are not decomposed.
C1_ExactMatchElseUnknown ==
    (Returned("CanError::from") /\ frame.error_bits \notin RecognizedMasks)
        => ret = Unknown(frame.error_bits)

\* C1 witness: the combined mask 0x0003 was decoded to Unknown(0x0003) although
\* the payload holds a valid arbitration bit and a valid controller problem
C1_Witness ==
    /\ Returned("CanError::from")
    /\ frame.error_bits = 3
    /\ Data(frame, 0) = 5
    /\ Data(frame, 1) = 1
    /\ ret = Unknown(3)

C3_Expected(e) ==
    CASE e.variant = "Can" /\ e.can.tag = "ControllerProblem" ->
            IF e.can.cp \in {"ReceiveBufferOverflow", "TransmitBufferOverflow"}
            THEN "Overrun" ELSE "Other"
      [] e.variant = "Can" /\ e.can.tag = "NoAck" -> "Acknowledge"
      [] e.variant = "Controller" ->
            IF e.controller \in {"ReceiveBufferOverflow", "TransmitBufferOverflow"}
            THEN "Overrun" ELSE "Other"
      [] OTHER -> "Other"

\* C3: Error::kind yields overrun whenever the wrapped value is a receive or
\* transmit buffer overflow, in the bus-error case and in the composite's own
\* controller-problem case alike, acknowledge for a wrapped no-acknowledge and
\* other for every remaining case.
C3_CompositeKind ==
    Returned("Error::kind") => ret = C3_Expected(self)

\* C4: CanError::kind is total and returns overrun exactly for
\* ControllerProblem(ReceiveBufferOverflow) and
\* ControllerProblem(TransmitBufferOverflow), acknowledge exactly for NoAck and
\* other for every other bus error.
C4_CanErrorKind ==
    Returned("CanError::kind") =>
        LET overflow ==
                /\ self.tag = "ControllerProblem"
                /\ self.cp \in {"ReceiveBufferOverflow", "TransmitBufferOverflow"}
            noAck == self.tag = "NoAck"
        IN  /\ ret \in {"Overrun", "Acknowledge", "Other"}
            /\ (ret = "Overrun") <=> overflow
            /\ (ret = "Acknowledge") <=> noAck
            /\ (ret = "Other") <=> (~overflow /\ ~noAck)

\* C4 witness: the transmit buffer overflow projected to overrun
C4_Witness ==
    /\ Returned("CanError::kind")
    /\ self = ControllerProblemError("TransmitBufferOverflow")
    /\ ret = "Overrun"

\* the bytes the transceiver-status decoder accepts
TransceiverAccepted == {b \in Byte : TransceiverError_try_from(b).tag = "Ok"}

\* C5 (as stated): the transceiver-status decoder is total over 0 .. 255 and
\* accepts exactly 9 byte values, and TransceiverError has exactly 9 variants.
C5_NineTransceiverCodes ==
    Returned("TransceiverError::try_from") =>
        /\ ret.tag \in {"Ok", "Err"}
        /\ ret.tag = "Ok" => ret.ok \in TransceiverError
        /\ ret.tag = "Err" => ret.err = InvalidTransceiverError
        /\ Cardinality(TransceiverAccepted) = 9
        /\ Cardinality(TransceiverError) = 9

\* C5 (amended): the transceiver-status decoder is total over 0 .. 255 and
\* accepts exactly the 10 codes 0x00 0x04 0x05 0x06 0x07 0x40 0x50 0x60 0x70
\* 0x80, each to its own variant, every other byte giving
\* InvalidTransceiverError; TransceiverError has exactly 10 variants.
C5_TenTransceiverCodes ==
    Returned("TransceiverError::try_from") =>
        /\ ret.tag \in {"Ok", "Err"}
        /\ (ret.tag = "Ok") <=> (val \in TransceiverCodes)
        /\ ret.tag = "Ok" => ret.ok \in TransceiverError
        /\ ret.tag = "Err" => ret.err = InvalidTransceiverError
        /\ ret.tag = "Ok" =>
                \A b \in TransceiverAccepted \ {val} :
                    TransceiverError_try_from(b).ok # ret.ok
        /\ Cardinality(TransceiverAccepted) = 10
        /\ Cardinality(TransceiverError) = 10

\* C5 witness: the tenth code, 0x80, decoded to the high-low short
C5_Witness ==
    /\ Returned("TransceiverError::try_from")
    /\ val = 128
    /\ ret = Ok("CanLowShortToCanHigh")


\* frame f with the payload byte at offset i replaced by b
WithByte(f, i, b) == [f EXCEPT !.data[i + 1] = b]

\* frame f with its mask replaced by m
WithMask(f, m) == [f EXCEPT !.error_bits = m]

\* the frames that differ from f in the mask, or in one of the payload bytes
\* 1, 2, 3 the dispatcher decodes
C6_Variants(f) ==
    {WithMask(f, m) : m \in Masks}
    \cup {WithByte(f, i, b) : i \in {1, 2, 3}, b \in Byte}

\* whether a result reports input that could not be interpreted
C6_Failed(e) == e.tag \in {"DecodingFailure", "Unknown"}

\* the raw value a failed decode of frame f is about: the unknown mask, the
\* unrecognized byte 1 (mask 0x0004), or the first unrecognized of bytes 2 and
\* 3 (mask 0x0008)
C6_Offending(f) ==
    CASE f.error_bits = 4 -> Data(f, 1)
      [] f.error_bits = 8 ->
            IF Data(f, 2) \notin ViolationTypeCodes THEN Data(f, 2)
            ELSE Data(f, 3)
      [] OTHER -> f.error_bits

\* the payload offset a DecodingFailure result is about
C6_FailedOffset(e) ==
    CASE e.failure = InvalidControllerProblem -> 1
      [] e.failure = InvalidViolationType -> 2
      [] e.failure = InvalidLocation -> 3
      [] OTHER -> 8

\* C6 (as stated): two error frames whose results are decoding failures or
\* unknown and whose offending raw values (the unknown mask, or the
\* unrecognized payload byte 1, 2 or 3) differ have different results, so the
\* offending mask or byte can be recovered from the result.
C6_FailurePreservesRawInput ==
    (Returned("CanError::from") /\ C6_Failed(ret)) =>
        \A g \in C6_Variants(frame) :
            LET other == CanError_from(g)
            IN  (C6_Failed(other) /\ C6_Offending(g) # C6_Offending(frame))
                    => other # ret

\* C6 (amended): an Unknown result carries the offending mask (two frames with
\* different unknown masks have different results); a DecodingFailure result
\* carries only which decoder failed, which names the offending payload offset
\* (1, 2 or 3) and the mask, but not the byte: frames with the same mask that
\* fail at the same offset have equal results whatever the byte there.
C6_FailurePreservesMaskAndOffset ==
    Returned("CanError::from") =>
        /\ ret.tag = "Unknown" =>
            /\ ret.mask = frame.error_bits
            /\ \A m \in Masks \ {frame.error_bits} :
                LET other == CanError_from(WithMask(frame, m))
                IN  other.tag = "Unknown" => other # ret
        /\ ret.tag = "DecodingFailure" =>
            /\ C6_FailedOffset(ret) \in {1, 2, 3}
            /\ Data(frame, C6_FailedOffset(ret)) = C6_Offending(frame)
            /\ (C6_FailedOffset(ret) = 1) <=> (frame.error_bits = 4)
            /\ (C6_FailedOffset(ret) \in {2, 3}) <=> (frame.error_bits = 8)
            /\ \A b \in Byte :
                LET other == CanError_from(WithByte(frame, C6_FailedOffset(ret), b))
                IN  (other.tag = "DecodingFailure"
                        /\ C6_FailedOffset(other) = C6_FailedOffset(ret))
                    => other = ret

\* C6 witness: the unrecognized controller-problem byte 0xFF came back as a
\* DecodingFailure that names the decoder and does not carry the byte
C6_Witness ==
    /\ Returned("CanError::from")
    /\ frame.error_bits = 4
    /\ Data(frame, 1) = 255
    /\ ret = DecodingFailure(InvalidControllerProblem)
    /\ C6_FailedOffset(ret) = 1

\* C7: the controller-problem decoder is total over 0 .. 255; it returns a
\* variant iff the byte is one of 0x00 0x01 0x02 0x04 0x08 0x10 0x20 0x40, the
\* variant the table names, and InvalidControllerProblem for every other byte
\* (0x80 and every byte with two or more bits set included).
C7_ControllerProblemDecoder ==
    Returned("ControllerProblem::try_from") =>
        /\ ret.tag \in {"Ok", "Err"}
        /\ (ret.tag = "Ok") <=> (val \in Codes(ControllerProblemTable))
        /\ ret.tag = "Ok" => <<val, ret.ok>> \in ControllerProblemTable
        /\ ret.tag = "Err" => ret.err = InvalidControllerProblem

\* C7 witness: a byte with two bits set (0x03) was rejected
C7_Witness ==
    /\ Returned("ControllerProblem::try_from")
    /\ val = 3
    /\ ret = Err(InvalidControllerProblem)

\* C8: the location decoder is total over 0 .. 255; it returns a location for
\* exactly the 20 codes of the table, each to the location the table names,
\* distinct codes to distinct locations, and InvalidLocation for every other
\* byte (0x01, 0x10, 0x11, 0x13, 0x1C, ...).
C8_LocationDecoder ==
    Returned("Location::try_from") =>
        /\ ret.tag \in {"Ok", "Err"}
        /\ (ret.tag = "Ok") <=> (val \in Codes(LocationTable))
        /\ ret.tag = "Ok" =>
            /\ <<val, ret.ok>> \in LocationTable
            /\ ret.ok \in Location
            /\ \A b \in Byte \ {val} :
                    Location_try_from(b).tag = "Ok"
                        => Location_try_from(b).ok # ret.ok
        /\ ret.tag = "Err" => ret.err = InvalidLocation
        /\ Cardinality({b \in Byte : Location_try_from(b).tag = "Ok"}) = 20
        /\ val \in {1, 16, 17, 19, 28} => ret = Err(InvalidLocation)

\* C8 witness: code 0x03 decoded to start-of-frame (not to the second variant
\* in ascending order)
C8_Witness ==
    /\ Returned("Location::try_from")
    /\ val = 3
    /\ ret = Ok("StartOfFrame")

\* C9: for mask 0x0004 the result is determined by payload byte 1 alone:
\* ControllerProblem(v) when byte 1 is a controller-problem code for v,
\* DecodingFailure(InvalidControllerProblem) otherwise; changing any other
\* payload byte does not change the result.
C9_ControllerProblemFromByte1 ==
    (Returned("CanError::from") /\ frame.error_bits = 4) =>
        LET b1 == Data(frame, 1)
        IN  /\ b1 \in Codes(ControllerProblemTable) =>
                /\ ret.tag = "ControllerProblem"
                /\ <<b1, ret.cp>> \in ControllerProblemTable
            /\ b1 \notin Codes(ControllerProblemTable) =>
                ret = DecodingFailure(InvalidControllerProblem)
            /\ \A i \in (0 .. 7) \ {1} : \A b \in Byte :
                    CanError_from(WithByte(frame, i, b)) = ret

\* C9 witness: byte 1 is the receive overflow while byte 0 is not a
\* controller-problem code
C9_Witness ==
    /\ Returned("CanError::from")
    /\ frame.error_bits = 4
    /\ Data(frame, 0) = 255
    /\ Data(frame, 1) = 1
    /\ ret = ControllerProblemError("ReceiveBufferOverflow")

\* C10: for mask 0x0010 the result is the unit TransceiverError for every
\* payload: it does not depend on payload byte 4 and is never a
\* DecodingFailure, even when byte 4 is no transceiver-status code.
C10_TransceiverErrorUnit ==
    (Returned("CanError::from") /\ frame.error_bits = 16) =>
        /\ ret = TransceiverErrorUnit
        /\ ret.tag # "DecodingFailure"
        /\ \A b \in Byte : CanError_from(WithByte(frame, 4, b)) = ret

\* C10 witness: byte 4 (0xFF) is no transceiver-status code and the result is
\* the unit TransceiverError
C10_Witness ==
    /\ Returned("CanError::from")
    /\ frame.error_bits = 16
    /\ Data(frame, 4) = 255
    /\ Data(frame, 4) \notin TransceiverCodes
    /\ ret = TransceiverErrorUnit

\* C11: a DecodingFailure returned by the dispatcher carries
\* InvalidControllerProblem (only for mask 0x0004), InvalidViolationType or
\* InvalidLocation (only for mask 0x0008); it never carries NotAnError,
\* UnknownErrorType, NotEnoughData or InvalidTransceiverError, and for every
\* mask other than 0x0004 and 0x0008 the result is no DecodingFailure.
C11_FailuresOfTheDispatcher ==
    (Returned("CanError::from") /\ ret.tag = "DecodingFailure") =>
        /\ ret.failure \in
                {InvalidControllerProblem, InvalidViolationType, InvalidLocation}
        /\ ret.failure.failure \notin
                {"NotAnError", "UnknownErrorType", "NotEnoughData",
                 "InvalidTransceiverError"}
        /\ frame.error_bits \in {4, 8}
        /\ (ret.failure = InvalidControllerProblem) <=> (frame.error_bits = 4)
        /\ (ret.failure \in {InvalidViolationType, InvalidLocation})
                <=> (frame.error_bits = 8)

\* C11 witness: mask 0x0008 with a valid violation type and an unrecognized
\* location returned DecodingFailure(InvalidLocation)
C11_Witness ==
    /\ Returned("CanError::from")
    /\ frame.error_bits = 8
    /\ Data(frame, 2) = 1
    /\ Data(frame, 3) = 255
    /\ ret.tag = "DecodingFailure"
    /\ ret.failure = InvalidLocation

=============================================================================
